---- MODULE Spec2Model ----
(***************************************************************************)
(* Model of the star-event sync service: the SyncOrchestrator state        *)
(* machine (app/services/sync_orchestrator.py), the ledger tables and CRUD *)
(* operations it drives (app/db/models.py, app/db/crud.py) and the retry   *)
(* wrapper around process_star_event (app/core/retry.py), behind the       *)
(* webhook handler (app/api/webhooks.py) with its signature verification   *)
(* (app/core/security.py).                                                 *)
(*                                                                         *)
(* Every webhook delivery is handled on its own task.  A task is split at  *)
(* the await points of process_star_event: each committed storage step,    *)
(* the provisioning call and the transfer call are separate actions, so    *)
(* tasks interleave exactly where the event loop can switch.  A storage    *)
(* step (flush + commit) either commits as a whole or raises and leaves    *)
(* the committed tables unchanged.                                         *)
(***************************************************************************)
EXTENDS Naturals, Sequences, FiniteSets

\* ---------------------------------------------------------------- bounds
NumTasks == 2
NumUrls == 2
NumDeliveries == 2
\* longest owner login and repository name tried
MaxNameLen == 2
\* highest attempt number whose backoff wait is computed
MaxAttemptNumber == 7

Tasks == 1..NumTasks
Urls == 1..NumUrls
Deliveries == 1..NumDeliveries

\* ------------------------------------------------------------- constants
\* Python None for text columns, and for integer ids (ids start at 1 and
\* the code tests `if repo_id:`).
None == "None"
NoneId == 0

\* @with_retry(max_attempts=3, ...) on process_star_event
max_attempts == 3

\* Exception kinds.  StorageError stands for any exception of the storage
\* layer other than a uniqueness violation; OSError is the error of
\* tempfile.mkdtemp, which sync_repository does not wrap.
IntegrityErrorEventId == "IntegrityError(webhook_events.event_id)"
IntegrityErrorGithubUrl == "IntegrityError(repositories.github_url)"
StorageError == "StorageError"

\* except (GitHubAPIError, OneDevAPIError, GitOperationError)
OrchestratorRetryable == {"GitHubAPIError", "OneDevAPIError", "GitOperationError"}

VARIABLES
  repositories,    \* table repositories: sequence of rows, id = position
  sync_logs,       \* table sync_logs: sequence of rows
  webhook_events,  \* table webhook_events: sequence of rows
  pc,              \* position of each task
  event,           \* the (event, delivery_id) arguments of each task
  attempt,         \* with_retry: attempt counter of the wrapper
  repo_id,         \* process_star_event local repo_id
  onedev_repo,     \* process_star_event local onedev_repo
  exc,             \* exception propagating in / out of the task
  result,          \* value returned by process_star_event
  hist             \* observation record (not read by the program)

vars == <<repositories, sync_logs, webhook_events, pc, event, attempt,
          repo_id, onedev_repo, exc, result, hist>>

\* None for the url columns: urls are modelled as tuples of their parts
NoneUrl == <<>>

NoRepo == [id |-> NoneId, name |-> None, url |-> NoneUrl, git_url |-> NoneUrl]
NoResult == [status |-> None, repository_id |-> NoneId, onedev_url |-> NoneUrl]
\* an optional string: Python None, or a str as a sequence of characters
Absent == [some |-> FALSE, str |-> <<>>]
Some(str) == [some |-> TRUE, str |-> str]
\* the raw request body, by what json.loads and WatchEvent make of it:
\* bytes that are not JSON, a JSON value that is not an object, or an object
\* with its "action" member (None: missing or not a string) and the
\* clone_url of its "repository" member (0: the repository or sender
\* descriptor is missing or does not validate)
NoBody == [kind |-> "invalid", action |-> None, clone_url |-> 0]
NoEvent == [clone_url |-> 0, delivery_id |-> 0,
            signature |-> Absent, gh_event |-> None, body |-> NoBody]

\* ------------------------------------------------------ ledger operations
\* Repository.github_url = Column(..., unique=True): the insert of a second
\* row with the same github_url raises IntegrityError at flush.
Repository_github_url_unique_mut(rows, url) == FALSE
Repository_github_url_unique(rows, url) ==
  \E i \in 1..Len(rows) : rows[i].github_url = url

\* WebhookEvent.event_id = Column(String(100), unique=True, index=True)
WebhookEvent_event_id_unique_mut(rows, eid) == FALSE
WebhookEvent_event_id_unique(rows, eid) ==
  \E i \in 1..Len(rows) : rows[i].event_id = eid

\* RepositoryCRUD.get_by_github_url: the row with this url, or None (0).
\* scalar_one_or_none: by the uniqueness of github_url there is at most one.
RepositoryCRUD_get_by_github_url(rows, url) ==
  IF \E i \in 1..Len(rows) : rows[i].github_url = url
  THEN CHOOSE i \in 1..Len(rows) :
         /\ rows[i].github_url = url
         /\ \A j \in 1..Len(rows) : rows[j].github_url = url => i <= j
  ELSE NoneId

\* RepositoryCRUD.create(..., sync_status="pending"): the new row; the
\* columns not passed take their defaults (None).
RepositoryCRUD_create(rows, url) ==
  Append(rows, [id |-> Len(rows) + 1,
                github_url |-> url,
                sync_status |-> "pending",
                error_message |-> None,
                onedev_url |-> NoneUrl,
                onedev_repo_name |-> None,
                onedev_project_id |-> NoneId,
                last_synced_at |-> None])

\* RepositoryCRUD.update_status(session, repo_id, status, error_message=None,
\* **kwargs): sets sync_status, overwrites error_message with the argument
\* (None when not passed), then sets every keyword column.  kw is a record
\* of the keyword arguments.
RepositoryCRUD_update_status_mut2(rows, id, status, error_message, kw) ==
  IF id \in 1..Len(rows)
  THEN [rows EXCEPT ![id] =
          [f \in DOMAIN rows[id] |->
             IF f = "error_message" THEN error_message
             ELSE IF f \in DOMAIN kw THEN kw[f]
             ELSE rows[id][f]]]
  ELSE rows
RepositoryCRUD_update_status_mut(rows, id, status, error_message, kw) ==
  IF id \in 1..Len(rows)
  THEN [rows EXCEPT ![id] =
          [f \in DOMAIN rows[id] |->
             IF f = "sync_status" THEN status
             ELSE IF f = "error_message" THEN error_message
             ELSE rows[id][f]]]
  ELSE rows
RepositoryCRUD_update_status(rows, id, status, error_message, kw) ==
  IF id \in 1..Len(rows)
  THEN [rows EXCEPT ![id] =
          [f \in DOMAIN rows[id] |->
             IF f = "sync_status" THEN status
             ELSE IF f = "error_message" THEN error_message
             ELSE IF f \in DOMAIN kw THEN kw[f]
             ELSE rows[id][f]]]
  ELSE rows

NoKw == [x \in {} |-> None]

\* SyncLogCRUD.create(session, repository_id, event_type, status, **kwargs)
SyncLogCRUD_create(rows, repository_id, status, error_message) ==
  Append(rows, [id |-> Len(rows) + 1,
                repository_id |-> repository_id,
                event_type |-> "star",
                status |-> status,
                error_message |-> error_message])

\* WebhookEventCRUD.create(session, event_id=delivery_id, ...): processed
\* defaults to False, processing_error and repository_id to None.
WebhookEventCRUD_create_mut(rows, eid) == rows
WebhookEventCRUD_create(rows, eid) ==
  Append(rows, [event_id |-> eid,
                event_type |-> "watch",
                processed |-> FALSE,
                processing_error |-> None,
                repository_id |-> NoneId])

\* WebhookEventCRUD.mark_processed(session, event_id, repository_id=None,
\* error=None): updates the row whose event_id matches, if there is one.
WebhookEventCRUD_mark_processed_mut(rows, eid, repository_id, error) ==
  [i \in 1..Len(rows) |->
     IF rows[i].event_id = eid
     THEN [rows[i] EXCEPT !.processed = TRUE,
                          !.repository_id = repository_id]
     ELSE rows[i]]
WebhookEventCRUD_mark_processed(rows, eid, repository_id, error) ==
  [i \in 1..Len(rows) |->
     IF rows[i].event_id = eid
     THEN [rows[i] EXCEPT !.processed = TRUE,
                          !.repository_id = repository_id,
                          !.processing_error = error]
     ELSE rows[i]]

\* ------------------------------------------------------- external systems
\* OneDevClient.create_repository on success: "id" and "name" are
\* data.get(...) of the API response (None when the field is missing),
\* "url" and "git_url" are built from base_url and the requested name,
\* which is derived from the event's repository.
ProvisionerResponses(url) ==
  { [id |-> i, name |-> n, url |-> <<"base_url", url>>,
     git_url |-> <<"base_url", url, ".git">>] :
      i \in {NoneId, 1}, n \in {None, "name"} }

\* ------------------------------------------------------ transfer engine
\* what the environment does to one sync_repository call: tempfile.mkdtemp
\* succeeds or raises OSError; Repo.clone_from and the pushes succeed, raise
\* GitCommandError, raise another exception, or never finish; shutil.rmtree
\* succeeds or raises
GitStepOutcomes == {"ok", "GitCommandError", "Exception", "hangs"}
GitFaults ==
  [mkdtemp : {"ok", "OSError"}, clone : GitStepOutcomes, push : GitStepOutcomes,
   rmtree : {"ok", "OSError"}]

\* git_operations.py lines 150-162: whether the directory exists after
\* cleanup_directory; an exception of rmtree is logged and swallowed
cleanup_directory_mut(exists, rmtree) == exists
cleanup_directory(exists, rmtree) ==
  IF exists /\ rmtree = "ok" THEN FALSE ELSE exists

\* the outcome of a call: whether it ends, the exception it raises, whether
\* it returns a path, and whether the temporary directory was created and
\* still exists
GitOutcome(ends, raised, repo_path, created, exists) ==
  [ends |-> ends, raised |-> raised, repo_path |-> repo_path,
   created |-> created, exists |-> exists]

\* git_operations.py lines 46-75; no timeout is passed to Repo.clone_from
clone_repository(f) ==
  IF f.mkdtemp # "ok" THEN GitOutcome(TRUE, "OSError", FALSE, FALSE, FALSE)
  ELSE IF f.clone = "hangs" THEN GitOutcome(FALSE, None, FALSE, TRUE, TRUE)
  ELSE IF f.clone = "ok" THEN GitOutcome(TRUE, None, TRUE, TRUE, TRUE)
  ELSE GitOutcome(TRUE, "GitOperationError", FALSE, TRUE,
                  cleanup_directory(TRUE, f.rmtree))

\* git_operations.py lines 91-116; no timeout is passed to push
push_repository(f) ==
  IF f.push = "hangs" THEN GitOutcome(FALSE, None, FALSE, TRUE, TRUE)
  ELSE IF f.push = "ok" THEN GitOutcome(TRUE, None, FALSE, TRUE, TRUE)
  ELSE GitOutcome(TRUE, "GitOperationError", FALSE, TRUE, TRUE)

\* git_operations.py lines 135-148: clone, push, and in the finally clause
\* cleanup of the path the clone returned
sync_repository(f) ==
  LET cloned == clone_repository(f)
      pushed == push_repository(f)
  IN IF ~cloned.ends \/ ~cloned.repo_path THEN cloned
     ELSE IF ~pushed.ends THEN pushed
     ELSE GitOutcome(TRUE, pushed.raised, FALSE, TRUE,
                     cleanup_directory(TRUE, f.rmtree))

\* ------------------------------------------------------------ retry policy
\* get_retry_config: retry_exceptions defaults to
\* (RetryableError, GitOperationError, OneDevAPIError);
\* retry=retry_if_exception_type(retry_exceptions).
retry_exceptions_mut == {"RetryableError", "GitOperationError", "OneDevAPIError",
                         StorageError, "OSError"}
retry_exceptions == {"RetryableError", "GitOperationError", "OneDevAPIError"}

\* AsyncRetrying(stop=stop_after_attempt(max_attempts), retry=..., reraise=True):
\* the wrapper calls the function again iff the exception is of a retried
\* type and fewer than max_attempts attempts have been made.
ShouldRetry_mut(e, n) == n < max_attempts
ShouldRetry_mut2(e, n) == e \in retry_exceptions
ShouldRetry(e, n) == e \in retry_exceptions /\ n < max_attempts

\* the outcome dictionary of the idempotent short-circuit (lines 70-74)
AlreadySyncedResult_mut(repo) ==
  [status |-> "success", repository_id |-> repo.id, onedev_url |-> repo.onedev_url]
AlreadySyncedResult(repo) ==
  [status |-> "already_synced", repository_id |-> repo.id, onedev_url |-> repo.onedev_url]

\* the outcome dictionary of a completed sync (lines 165-170)
SuccessResult(id, od) ==
  [status |-> "success", repository_id |-> id, onedev_url |-> od.url]

\* ------------------------------------------------------------ observation
\* hist records what an external observer of the run sees:
\*   statuses[id]  the committed sync_status values of row id, in order
\*   creator[id]   the task whose invocation inserted row id
\*   provision[u], transfer[u]  calls of create_repository / sync_repository
\*                 made for source url u
\*   prov[t]       create_repository calls made by task t (all its attempts)
\*   after[t]      the row of the task's url whose creator had ended when
\*                 the task started (0 if none)
\*   caught[t]     the exception the except-Exception clause caught in the
\*                 current invocation of task t
\*   reraised[t]   the current invocation reached the `raise` that ends an
\*                 except clause (lines 197, 211)
\*   sync_operations_total, active_syncs  the values of the metrics of
\*                 app/api/metrics.py that record_sync_operation,
\*                 increment_active_syncs and decrement_active_syncs change;
\*                 the orchestrator does not import that module and no step
\*                 of it calls them
HistInit ==
  [sync_operations_total |-> 0,
   active_syncs |-> 0,
   statuses |-> <<>>,
   creator |-> <<>>,
   provision |-> [u \in Urls |-> 0],
   transfer |-> [u \in Urls |-> 0],
   prov |-> [t \in Tasks |-> 0],
   after |-> [t \in Tasks |-> NoneId],
   caught |-> [t \in Tasks |-> None],
   reraised |-> [t \in Tasks |-> FALSE]]

Init ==
  /\ repositories = <<>>
  /\ sync_logs = <<>>
  /\ webhook_events = <<>>
  /\ pc = [t \in Tasks |-> "idle"]
  /\ event = [t \in Tasks |-> NoEvent]
  /\ attempt = [t \in Tasks |-> 0]
  /\ repo_id = [t \in Tasks |-> NoneId]
  /\ onedev_repo = [t \in Tasks |-> NoRepo]
  /\ exc = [t \in Tasks |-> None]
  /\ result = [t \in Tasks |-> NoResult]
  /\ hist = HistInit

Ended(t) == pc[t] \in {"returned", "raised"}

\* An exception e raised inside the try block of process_star_event: the
\* first except clause takes the orchestrator's retryable kinds, the second
\* everything else.
RaiseInTry(t, e) ==
  /\ pc' = [pc EXCEPT ![t] = IF e \in OrchestratorRetryable
                             THEN "except_retryable" ELSE "except_exception"]
  /\ exc' = [exc EXCEPT ![t] = e]

\* An exception e leaving process_star_event (raised inside an except clause
\* or re-raised by it) reaches the retry wrapper, retry.py lines 104-112 with
\* the AsyncRetrying of lines 51-60: either the wrapper sleeps before the
\* next attempt or, with reraise=True, the exception leaves the wrapper.
RaiseToWrapper(t, e) ==
  /\ pc' = [pc EXCEPT ![t] = IF ShouldRetry(e, attempt[t]) THEN "backoff" ELSE "raised"]
  /\ exc' = [exc EXCEPT ![t] = e]

\* commit of a new sync_status of row id, as an observer sees it
Observed(h, id, status) == [h EXCEPT !.statuses[id] = Append(@, status)]


\* ------------------------------------------------ signature verification
\* settings.github_webhook_secret; secrets are numbered
github_webhook_secret == 1

HexDigits == <<"0", "1", "2", "3", "4", "5", "6", "7",
               "8", "9", "a", "b", "c", "d", "e", "f">>
Hex(n) == HexDigits[(n % 16) + 1]
\* a character outside ASCII, as a latin-1 decoded header byte gives it
NonAscii == {"U+00E9"}
SignaturePrefix == <<"s", "h", "a", "2", "5", "6", "=">>

KindCode(kind) == CASE kind = "invalid" -> 0 [] kind = "array" -> 1 [] OTHER -> 2
ActionCode(action) == CASE action = None -> 0 [] action = "started" -> 1 [] OTHER -> 2
BodyCode(body) == KindCode(body.kind) + 3 * ActionCode(body.action) + 9 * body.clone_url

\* hmac.new(secret, payload, hashlib.sha256).hexdigest(): a lower-case hex
\* string of fixed length that differs whenever the secret or the payload
\* differs (three digits stand for the sixty-four)
hexdigest(secret, payload) ==
  <<Hex(secret), Hex(BodyCode(payload) \div 16), Hex(BodyCode(payload))>>

\* str.startswith
startswith(str, prefix) ==
  /\ Len(str) >= Len(prefix)
  /\ SubSeq(str, 1, Len(prefix)) = prefix

\* str.split(sep, 1)[1]: what follows the first occurrence of sep
split_1(str, sep) ==
  LET first == CHOOSE i \in 1..Len(str) :
                 /\ str[i] = sep
                 /\ \A j \in 1..(i - 1) : str[j] # sep
  IN SubSeq(str, first + 1, Len(str))

\* hmac.compare_digest on two str arguments: TypeError when either holds a
\* non-ASCII character, else equality
compare_digest(a, b) ==
  IF \E i \in 1..Len(a) : a[i] \in NonAscii THEN "TypeError"
  ELSE IF \E i \in 1..Len(b) : b[i] \in NonAscii THEN "TypeError"
  ELSE IF a = b THEN "True" ELSE "False"

\* security.py lines 13-45; the value is "True", "False" or the name of
\* the exception the call raises
verify_github_signature(secret, payload, signature_header) ==
  IF ~signature_header.some \/ signature_header.str = <<>> THEN "False"
  ELSE IF ~startswith(signature_header.str, SignaturePrefix) THEN "False"
  ELSE compare_digest(hexdigest(secret, payload),
                      split_1(signature_header.str, "="))

\* "sha256=" + hex(HMAC-SHA256(secret, payload))
ValidSignature(secret, payload) == Some(SignaturePrefix \o hexdigest(secret, payload))

\* ------------------------------------------------------- webhook handler
\* request bodies whose repository descriptor, if any, names one of urls
Bodies(urls) ==
  {NoBody, [kind |-> "array", action |-> None, clone_url |-> 0]}
    \cup {[kind |-> "object", action |-> a, clone_url |-> u] :
            a \in {None, "started", "opened"}, u \in {0} \cup urls}

\* X-Hub-Signature-256 values sent with a body: none, the digest without
\* its prefix, the digest of another secret, a non-ASCII byte after the
\* prefix, and the valid signature
RequestSignatures(body) ==
  {Absent,
   Some(hexdigest(github_webhook_secret, body)),
   Some(SignaturePrefix \o hexdigest(github_webhook_secret + 1, body)),
   Some(SignaturePrefix \o <<"U+00E9">>),
   ValidSignature(github_webhook_secret, body)}

GithubEvents == {"watch", "push"}

Requests(urls) ==
  UNION {{[signature |-> h, gh_event |-> e, body |-> b] :
            h \in RequestSignatures(b), e \in GithubEvents} : b \in Bodies(urls)}

\* the response of a handler run: status code, the "status" member of the
\* body ("error" for the {"error": ...} bodies) and its reason, error or
\* result status.  A run that an exception leaves produces no response.
HandlerResponse(code, status, detail) == [code |-> code, status |-> status, detail |-> detail]
Escaped(e) == [code |-> 0, status |-> "exception", detail |-> e]
Proceeds == [code |-> 0, status |-> "process_star_event", detail |-> None]

\* webhooks.py lines 38-101: the handler up to the call of the
\* orchestrator
github_webhook_exit(req) ==
  LET verified == verify_github_signature(github_webhook_secret, req.body, req.signature)
  IN IF verified \notin {"True", "False"} THEN Escaped(verified)
     ELSE IF verified = "False" THEN HandlerResponse(401, "error", "Invalid signature")
     ELSE IF req.body.kind = "invalid" THEN HandlerResponse(400, "error", "Invalid JSON payload")
     ELSE IF req.body.kind # "object" THEN Escaped("AttributeError")
     ELSE IF req.gh_event # "watch" THEN HandlerResponse(200, "ignored", "not a watch event")
     ELSE IF req.body.action = None \/ req.body.clone_url = 0
          THEN HandlerResponse(400, "error", "Invalid payload structure")
     ELSE IF req.body.action # "started"
          THEN HandlerResponse(200, "ignored", <<"action is", req.body.action, "not started">>)
     ELSE Proceeds

\* pc of a request the handler answered, or failed to answer, before the
\* orchestrator
HandlerExits == {"responded", "escaped"}

\* --------------------------------------------------------------- actions
\* Tasks, source urls and delivery ids are interchangeable, so they are
\* numbered in order of first appearance: task t is the t-th request to
\* reach the orchestrator, and a url or delivery id is either one already
\* seen or the next unused number.
Arrived == {s \in Tasks : pc[s] # "idle"}

\* sync_repository is an ordinary blocking call made from the coroutine
\* (sync_orchestrator.py line 124): while a task is inside it the event loop
\* runs no other coroutine, so no handler and no other task takes a step
EventLoopFree == \A s \in Tasks : pc[s] # "sync_repository"
Started == {s \in Arrived : pc[s] \notin HandlerExits}
NextTask(t) == \A s \in Tasks : s < t => s \in Arrived
FreshOrSeen(n, seen) == n <= Cardinality(seen) + 1

\* webhooks.py line 106: the handler calls the wrapped process_star_event
\* with the validated event and the delivery id; with_retry starts its
\* first attempt.
wrapper_call(t) ==
  /\ pc[t] = "idle"
  /\ EventLoopFree
  /\ NextTask(t)
  /\ \E d \in Deliveries, req \in Requests(Urls) :
       /\ github_webhook_exit(req) = Proceeds
       /\ FreshOrSeen(req.body.clone_url, {event[s].clone_url : s \in Started})
       /\ FreshOrSeen(d, {event[s].delivery_id : s \in Arrived})
       /\ event' = [event EXCEPT ![t] =
                      [clone_url |-> req.body.clone_url, delivery_id |-> d,
                       signature |-> req.signature, gh_event |-> req.gh_event,
                       body |-> req.body]]
       /\ LET r == RepositoryCRUD_get_by_github_url(repositories, req.body.clone_url)
          IN hist' = [hist EXCEPT !.after[t] =
                        IF r # NoneId /\ Ended(hist.creator[r]) THEN r ELSE NoneId]
  /\ attempt' = [attempt EXCEPT ![t] = 1]
  /\ pc' = [pc EXCEPT ![t] = "store_event"]
  /\ repo_id' = [repo_id EXCEPT ![t] = NoneId]
  /\ UNCHANGED <<repositories, sync_logs, webhook_events, onedev_repo, exc, result>>

\* webhooks.py lines 38-101: a request the handler answers without calling
\* the orchestrator (401, 400, ignored), or that an exception leaves
github_webhook(t) ==
  /\ pc[t] = "idle"
  /\ EventLoopFree
  /\ NextTask(t)
  /\ \E d \in Deliveries, req \in Requests(Urls) :
       /\ github_webhook_exit(req) # Proceeds
       /\ FreshOrSeen(req.body.clone_url, {event[s].clone_url : s \in Started})
       /\ FreshOrSeen(d, {event[s].delivery_id : s \in Arrived})
       /\ event' = [event EXCEPT ![t] =
                      [clone_url |-> 0, delivery_id |-> d,
                       signature |-> req.signature, gh_event |-> req.gh_event,
                       body |-> req.body]]
       /\ IF github_webhook_exit(req).status = "exception"
          THEN /\ pc' = [pc EXCEPT ![t] = "escaped"]
               /\ exc' = [exc EXCEPT ![t] = github_webhook_exit(req).detail]
          ELSE /\ pc' = [pc EXCEPT ![t] = "responded"]
               /\ UNCHANGED exc
  /\ UNCHANGED <<repositories, sync_logs, webhook_events, attempt, repo_id,
                 onedev_repo, result, hist>>

\* lines 49-58: WebhookEventCRUD.create + commit
store_event(t) ==
  /\ pc[t] = "store_event"
  /\ EventLoopFree
  /\ \/ /\ ~WebhookEvent_event_id_unique(webhook_events, event[t].delivery_id)
        /\ webhook_events' = WebhookEventCRUD_create(webhook_events, event[t].delivery_id)
        /\ pc' = [pc EXCEPT ![t] = "lookup"]
        /\ UNCHANGED <<exc, hist>>
     \/ /\ WebhookEvent_event_id_unique(webhook_events, event[t].delivery_id)
        /\ RaiseInTry(t, IntegrityErrorEventId)
        /\ UNCHANGED hist
        /\ UNCHANGED webhook_events
     \/ /\ RaiseInTry(t, StorageError)
        /\ UNCHANGED hist
        /\ UNCHANGED webhook_events
  /\ UNCHANGED <<repositories, sync_logs, event, attempt, repo_id, onedev_repo, result>>

\* lines 60-74: idempotency lookup and short-circuit
lookup_mut2(t) ==
  /\ pc[t] = "lookup"
  /\ EventLoopFree
  /\ \/ LET existing_repo == RepositoryCRUD_get_by_github_url(repositories, event[t].clone_url)
        IN IF existing_repo # NoneId /\ repositories[existing_repo].sync_status = "completed"
           THEN /\ result' = [result EXCEPT ![t] = AlreadySyncedResult(repositories[existing_repo])]
                /\ pc' = [pc EXCEPT ![t] = "returned"]
                /\ UNCHANGED <<exc, hist, repo_id>>
           ELSE IF existing_repo # NoneId
           THEN /\ repo_id' = [repo_id EXCEPT ![t] = existing_repo]
                /\ pc' = [pc EXCEPT ![t] = "in_progress"]
                /\ UNCHANGED <<exc, hist, result>>
           ELSE /\ pc' = [pc EXCEPT ![t] = "create"]
                /\ UNCHANGED <<exc, hist, result, repo_id>>
     \/ /\ RaiseInTry(t, StorageError)
        /\ UNCHANGED <<hist, result, repo_id>>
  /\ UNCHANGED <<repositories, sync_logs, webhook_events, event, attempt, onedev_repo>>
lookup_mut(t) ==
  /\ pc[t] = "lookup"
  /\ EventLoopFree
  /\ \/ LET existing_repo == RepositoryCRUD_get_by_github_url(repositories, event[t].clone_url)
        IN IF existing_repo # NoneId
           THEN /\ result' = [result EXCEPT ![t] = AlreadySyncedResult(repositories[existing_repo])]
                /\ sync_logs' = SyncLogCRUD_create(sync_logs, existing_repo, "success", None)
                /\ pc' = [pc EXCEPT ![t] = "returned"]
                /\ UNCHANGED <<exc, hist>>
           ELSE /\ pc' = [pc EXCEPT ![t] = "create"]
                /\ UNCHANGED <<exc, hist, result, sync_logs>>
     \/ /\ RaiseInTry(t, StorageError)
        /\ UNCHANGED <<hist, result, sync_logs>>
  /\ UNCHANGED <<repositories, webhook_events, event, attempt, repo_id, onedev_repo>>
lookup(t) ==
  /\ pc[t] = "lookup"
  /\ EventLoopFree
  /\ \/ LET existing_repo == RepositoryCRUD_get_by_github_url(repositories, event[t].clone_url)
        IN IF existing_repo # NoneId
           THEN /\ result' = [result EXCEPT ![t] = AlreadySyncedResult(repositories[existing_repo])]
                /\ pc' = [pc EXCEPT ![t] = "returned"]
                /\ UNCHANGED <<exc, hist>>
           ELSE /\ pc' = [pc EXCEPT ![t] = "create"]
                /\ UNCHANGED <<exc, hist, result>>
     \/ /\ RaiseInTry(t, StorageError)
        /\ UNCHANGED hist
        /\ UNCHANGED result
  /\ UNCHANGED <<repositories, sync_logs, webhook_events, event, attempt, repo_id, onedev_repo>>

\* lines 76-90: RepositoryCRUD.create(sync_status="pending") + commit
create(t) ==
  /\ pc[t] = "create"
  /\ EventLoopFree
  /\ \/ /\ ~Repository_github_url_unique(repositories, event[t].clone_url)
        /\ repositories' = RepositoryCRUD_create(repositories, event[t].clone_url)
        /\ repo_id' = [repo_id EXCEPT ![t] = Len(repositories) + 1]
        /\ hist' = [hist EXCEPT !.statuses = Append(@, <<"pending">>),
                                !.creator = Append(@, t)]
        /\ pc' = [pc EXCEPT ![t] = "in_progress"]
        /\ UNCHANGED exc
     \/ /\ Repository_github_url_unique(repositories, event[t].clone_url)
        /\ RaiseInTry(t, IntegrityErrorGithubUrl)
        /\ UNCHANGED hist
        /\ UNCHANGED <<repositories, repo_id>>
     \/ /\ RaiseInTry(t, StorageError)
        /\ UNCHANGED hist
        /\ UNCHANGED <<repositories, repo_id>>
  /\ UNCHANGED <<sync_logs, webhook_events, event, attempt, onedev_repo, result>>

\* lines 97-99: update_status(repo_id, "in_progress") + commit
in_progress(t) ==
  /\ pc[t] = "in_progress"
  /\ EventLoopFree
  /\ \/ /\ repositories' = RepositoryCRUD_update_status(repositories, repo_id[t],
                                                        "in_progress", None, NoKw)
        /\ hist' = Observed(hist, repo_id[t], "in_progress")
        /\ pc' = [pc EXCEPT ![t] = "provision"]
        /\ UNCHANGED exc
     \/ /\ RaiseInTry(t, StorageError)
        /\ UNCHANGED hist
        /\ UNCHANGED repositories
  /\ UNCHANGED <<sync_logs, webhook_events, event, attempt, repo_id, onedev_repo, result>>

\* lines 101-110: onedev_client.create_repository; it returns a descriptor or
\* raises OneDevAPIError (every failure inside it is wrapped).
provision(t) ==
  /\ pc[t] = "provision"
  /\ EventLoopFree
  /\ \/ /\ \E r \in ProvisionerResponses(event[t].clone_url) :
             onedev_repo' = [onedev_repo EXCEPT ![t] = r]
        /\ hist' = [hist EXCEPT !.provision[event[t].clone_url] = @ + 1,
                                !.prov[t] = @ + 1]
        /\ pc' = [pc EXCEPT ![t] = "cloning"]
        /\ UNCHANGED exc
     \/ /\ RaiseInTry(t, "OneDevAPIError")
        /\ hist' = [hist EXCEPT !.provision[event[t].clone_url] = @ + 1,
                                !.prov[t] = @ + 1]
        /\ UNCHANGED onedev_repo
  /\ UNCHANGED <<repositories, sync_logs, webhook_events, event, attempt, repo_id, result>>

\* lines 112-121: update_status(repo_id, "cloning", onedev_url=...,
\* onedev_repo_name=..., onedev_project_id=...) + commit
cloning(t) ==
  /\ pc[t] = "cloning"
  /\ EventLoopFree
  /\ \/ /\ repositories' = RepositoryCRUD_update_status(repositories, repo_id[t],
               "cloning", None,
               [onedev_url |-> onedev_repo[t].url,
                onedev_repo_name |-> onedev_repo[t].name,
                onedev_project_id |-> onedev_repo[t].id])
        /\ hist' = Observed(hist, repo_id[t], "cloning")
        /\ pc' = [pc EXCEPT ![t] = "transfer"]
        /\ UNCHANGED exc
     \/ /\ RaiseInTry(t, StorageError)
        /\ UNCHANGED hist
        /\ UNCHANGED repositories
  /\ UNCHANGED <<sync_logs, webhook_events, event, attempt, repo_id, onedev_repo, result>>

\* lines 123-128: the call of git_ops.sync_repository.  clone_repository
\* and push_repository wrap their failures in GitOperationError;
\* tempfile.mkdtemp (git_operations.py line 47) is outside the try and raises
\* OSError.
transfer(t) ==
  /\ pc[t] = "transfer"
  /\ EventLoopFree
  /\ pc' = [pc EXCEPT ![t] = "sync_repository"]
  /\ hist' = [hist EXCEPT !.transfer[event[t].clone_url] = @ + 1]
  /\ UNCHANGED <<repositories, sync_logs, webhook_events, event, attempt, repo_id,
                 onedev_repo, exc, result>>

\* the blocking call ends: sync_repository returns, or raises what
\* git_operations.py lets out of it
transfer_return(t) ==
  /\ pc[t] = "sync_repository"
  /\ \E f \in GitFaults :
       /\ sync_repository(f).ends
       /\ IF sync_repository(f).raised = None
          THEN /\ pc' = [pc EXCEPT ![t] = "completed"]
               /\ UNCHANGED exc
          ELSE RaiseInTry(t, sync_repository(f).raised)
  /\ UNCHANGED <<repositories, sync_logs, webhook_events, event, attempt, repo_id,
                 onedev_repo, result, hist>>

\* lines 130-137: update_status(repo_id, "completed", last_synced_at=utcnow())
\* + commit
completed(t) ==
  /\ pc[t] = "completed"
  /\ EventLoopFree
  /\ \/ /\ repositories' = RepositoryCRUD_update_status(repositories, repo_id[t],
               "completed", None, [last_synced_at |-> "utcnow"])
        /\ hist' = Observed(hist, repo_id[t], "completed")
        /\ pc' = [pc EXCEPT ![t] = "success_log"]
        /\ UNCHANGED exc
     \/ /\ RaiseInTry(t, StorageError)
        /\ UNCHANGED hist
        /\ UNCHANGED repositories
  /\ UNCHANGED <<sync_logs, webhook_events, event, attempt, repo_id, onedev_repo, result>>

\* lines 139-148: SyncLogCRUD.create(status="success") + commit
success_log(t) ==
  /\ pc[t] = "success_log"
  /\ EventLoopFree
  /\ \/ /\ sync_logs' = SyncLogCRUD_create(sync_logs, repo_id[t], "success", None)
        /\ pc' = [pc EXCEPT ![t] = "mark_processed"]
        /\ UNCHANGED <<exc, hist>>
     \/ /\ RaiseInTry(t, StorageError)
        /\ UNCHANGED hist
        /\ UNCHANGED sync_logs
  /\ UNCHANGED <<repositories, webhook_events, event, attempt, repo_id, onedev_repo, result>>

\* lines 150-170: mark_processed(delivery_id, repository_id=repo_id) + commit,
\* then return the success outcome
mark_processed(t) ==
  /\ pc[t] = "mark_processed"
  /\ EventLoopFree
  /\ \/ /\ webhook_events' = WebhookEventCRUD_mark_processed(webhook_events,
               event[t].delivery_id, repo_id[t], None)
        /\ result' = [result EXCEPT ![t] = SuccessResult(repo_id[t], onedev_repo[t])]
        /\ pc' = [pc EXCEPT ![t] = "returned"]
        /\ UNCHANGED <<exc, hist>>
     \/ /\ RaiseInTry(t, StorageError)
        /\ UNCHANGED hist
        /\ UNCHANGED <<webhook_events, result>>
  /\ UNCHANGED <<repositories, sync_logs, event, attempt, repo_id, onedev_repo>>

\* lines 172-190: except (GitHubAPIError, OneDevAPIError, GitOperationError):
\* if repo_id: update_status(failed, error_message=str(e)) and
\* SyncLogCRUD.create(status="failed") in one commit.  An exception raised
\* here leaves the except clause and the function.
except_retryable_record(t) ==
  /\ pc[t] = "except_retryable"
  /\ EventLoopFree
  /\ \/ /\ IF repo_id[t] # NoneId
           THEN /\ repositories' = RepositoryCRUD_update_status(repositories, repo_id[t],
                                       "failed", exc[t], NoKw)
                /\ sync_logs' = SyncLogCRUD_create(sync_logs, repo_id[t], "failed", exc[t])
                /\ hist' = Observed(hist, repo_id[t], "failed")
           ELSE UNCHANGED <<repositories, sync_logs, hist>>
        /\ pc' = [pc EXCEPT ![t] = "except_retryable_mark"]
        /\ UNCHANGED exc
     \/ /\ repo_id[t] # NoneId
        /\ RaiseToWrapper(t, StorageError)
        /\ UNCHANGED hist
        /\ UNCHANGED <<repositories, sync_logs>>
  /\ UNCHANGED <<webhook_events, event, attempt, repo_id, onedev_repo, result>>

\* lines 192-197: mark_processed(delivery_id, repository_id=repo_id,
\* error=str(e)) + commit, then raise
except_retryable_mark(t) ==
  /\ pc[t] = "except_retryable_mark"
  /\ EventLoopFree
  /\ \/ /\ webhook_events' = WebhookEventCRUD_mark_processed(webhook_events,
               event[t].delivery_id, repo_id[t], exc[t])
        /\ RaiseToWrapper(t, exc[t])
        /\ hist' = [hist EXCEPT !.reraised[t] = TRUE]
     \/ /\ RaiseToWrapper(t, StorageError)
        /\ UNCHANGED hist
        /\ UNCHANGED webhook_events
  /\ UNCHANGED <<repositories, sync_logs, event, attempt, repo_id, onedev_repo, result>>

\* lines 199-211: except Exception: if repo_id: update_status(failed,
\* error_message=str(e)) + commit; raise
except_exception(t) ==
  /\ pc[t] = "except_exception"
  /\ EventLoopFree
  /\ \/ /\ IF repo_id[t] # NoneId
           THEN /\ repositories' = RepositoryCRUD_update_status(repositories, repo_id[t],
                                       "failed", exc[t], NoKw)
                /\ hist' = [Observed(hist, repo_id[t], "failed") EXCEPT
                              !.caught[t] = exc[t], !.reraised[t] = TRUE]
           ELSE /\ hist' = [hist EXCEPT
                              !.caught[t] = exc[t], !.reraised[t] = TRUE]
                /\ UNCHANGED repositories
        /\ RaiseToWrapper(t, exc[t])
     \/ /\ repo_id[t] # NoneId
        /\ RaiseToWrapper(t, StorageError)
        /\ hist' = [hist EXCEPT !.caught[t] = exc[t]]
        /\ UNCHANGED repositories
  /\ UNCHANGED <<sync_logs, webhook_events, event, attempt, repo_id, onedev_repo, result>>

\* retry.py lines 91-98: after the backoff sleep the wrapper starts the next
\* attempt, a new invocation of process_star_event with the same arguments
\* (new session, repo_id = None).
wrapper_retry(t) ==
  /\ pc[t] = "backoff"
  /\ EventLoopFree
  /\ attempt' = [attempt EXCEPT ![t] = @ + 1]
  /\ pc' = [pc EXCEPT ![t] = "store_event"]
  /\ repo_id' = [repo_id EXCEPT ![t] = NoneId]
  /\ onedev_repo' = [onedev_repo EXCEPT ![t] = NoRepo]
  /\ exc' = [exc EXCEPT ![t] = None]
  /\ hist' = [hist EXCEPT !.caught[t] = None, !.reraised[t] = FALSE]
  /\ UNCHANGED <<repositories, sync_logs, webhook_events, event, result>>

Next ==
  \/ \E t \in Tasks : github_webhook(t)
  \/ \E t \in Tasks : wrapper_call(t)
  \/ \E t \in Tasks : store_event(t)
  \/ \E t \in Tasks : lookup(t)
  \/ \E t \in Tasks : create(t)
  \/ \E t \in Tasks : in_progress(t)
  \/ \E t \in Tasks : provision(t)
  \/ \E t \in Tasks : cloning(t)
  \/ \E t \in Tasks : transfer(t)
  \/ \E t \in Tasks : transfer_return(t)
  \/ \E t \in Tasks : completed(t)
  \/ \E t \in Tasks : success_log(t)
  \/ \E t \in Tasks : mark_processed(t)
  \/ \E t \in Tasks : except_retryable_record(t)
  \/ \E t \in Tasks : except_retryable_mark(t)
  \/ \E t \in Tasks : except_exception(t)
  \/ \E t \in Tasks : wrapper_retry(t)

Spec == Init /\ [][Next]_vars

\* webhooks.py lines 42-131: what the caller of the webhook gets once the
\* request has ended; the result of the orchestrator is nested under a
\* top-level status "success" (line 117) and every exception of the
\* orchestration becomes a 500 (lines 119-131)
NoResponse == HandlerResponse(0, None, None)
Response(t) ==
  CASE pc[t] \in HandlerExits ->
         github_webhook_exit([signature |-> event[t].signature,
                              gh_event |-> event[t].gh_event,
                              body |-> event[t].body])
    [] pc[t] = "returned" -> HandlerResponse(200, "success", result[t].status)
    [] pc[t] = "raised" -> HandlerResponse(500, "error", "Internal server error")
    [] OTHER -> NoResponse

\* ------------------------------- verify_github_signature on its own
\* signature headers tried against a body: none, every prefix of the valid
\* header (the empty string and the bare "sha256=" among them), the valid
\* header with one character replaced or one appended, the digests of
\* every other body and of another secret, and the valid header
SignatureHeaders(body) ==
  LET h == ValidSignature(github_webhook_secret, body).str
  IN {Absent}
       \cup {Some(SubSeq(h, 1, k)) : k \in 0..Len(h)}
       \cup {Some([h EXCEPT ![i] = c]) : i \in 1..Len(h), c \in {"0", "U+00E9"}}
       \cup {Some(h \o <<c>>) : c \in {"0", "U+00E9"}}
       \cup {Some(SignaturePrefix \o hexdigest(k, b)) :
               k \in {github_webhook_secret, github_webhook_secret + 1},
               b \in Bodies(Urls)}
       \cup RequestSignatures(body)

InitSig ==
  /\ repositories = <<>>
  /\ sync_logs = <<>>
  /\ webhook_events = <<>>
  /\ pc = [t \in Tasks |-> "idle"]
  /\ \E b \in Bodies(Urls) : \E h \in SignatureHeaders(b) :
       event = [t \in Tasks |-> [NoEvent EXCEPT !.signature = h, !.body = b]]
  /\ attempt = [t \in Tasks |-> 0]
  /\ repo_id = [t \in Tasks |-> NoneId]
  /\ onedev_repo = [t \in Tasks |-> NoRepo]
  /\ exc = [t \in Tasks |-> None]
  /\ result = [t \in Tasks |-> NoResult]
  /\ hist = HistInit

\* one call verify_github_signature(body, x_hub_signature_256): its return
\* value goes to result[t].status, an exception it raises to exc[t]
verify_call(t) ==
  /\ pc[t] = "idle"
  /\ LET v == verify_github_signature(github_webhook_secret,
                                      event[t].body, event[t].signature)
     IN IF v \in {"True", "False"}
        THEN /\ result' = [result EXCEPT ![t].status = v]
             /\ pc' = [pc EXCEPT ![t] = "returned"]
             /\ UNCHANGED exc
        ELSE /\ exc' = [exc EXCEPT ![t] = v]
             /\ pc' = [pc EXCEPT ![t] = "raised"]
             /\ UNCHANGED result
  /\ UNCHANGED <<repositories, sync_logs, webhook_events, event, attempt,
                 repo_id, onedev_repo, hist>>

NextSig == \E t \in Tasks : verify_call(t)

SpecSig == InitSig /\ [][NextSig]_vars

\* ------------------------------- OneDevClient.create_repository on its own
\* settings.onedev_conflict_strategy
ConflictStrategies == {"use_existing", "fail"}

\* what an HTTP call gives: a transport failure (httpx.HTTPError), or a
\* response with its status code and its body, which response.json() either
\* fails to decode or decodes to an object with optional "id" and "name"
HttpResponses(codes) ==
  {[raises |-> "HTTPError", status_code |-> 0, json |-> FALSE, id |-> NoneId, name |-> None]}
    \cup {[raises |-> None, status_code |-> c, json |-> FALSE, id |-> NoneId, name |-> None] :
            c \in codes}
    \cup {[raises |-> None, status_code |-> c, json |-> TRUE, id |-> i, name |-> n] :
            c \in codes, i \in {NoneId, 1}, n \in {None, "name"}}

\* the outcome of a client call: the descriptor it returns, or the
\* exception it raises with the text of its message
Returns(repo) == [raised |-> None, message |-> None, repo |-> repo]
Raises(e, message) == [raised |-> e, message |-> message, repo |-> NoRepo]

\* lines 65-70 and 115-120: the descriptor built from the decoded body
Descriptor(name, response) ==
  [id |-> response.id, name |-> response.name, url |-> <<"base_url", name>>,
   git_url |-> <<"base_url", name, ".git">>]

\* the except clauses around the try block of a client call (lines 83-88
\* and 124-129): httpx.HTTPError and every other Exception, an
\* OneDevAPIError raised inside the block included, leave the call as
\* OneDevAPIError
except_clauses_mut(out) ==
  IF out.raised = "HTTPError" THEN Raises("OneDevAPIError", "HTTP error") ELSE out
except_clauses(out) ==
  IF out.raised = None THEN out
  ELSE IF out.raised = "HTTPError" THEN Raises("OneDevAPIError", "HTTP error")
  ELSE Raises("OneDevAPIError", "Unexpected error")

\* onedev_client.py lines 106-122: the try block of get_repository
get_repository_try(name, get) ==
  IF get.raises # None THEN Raises(get.raises, None)
  ELSE IF get.status_code = 200
       THEN IF get.json THEN Returns(Descriptor(name, get))
            ELSE Raises("JSONDecodeError", None)
       ELSE Raises("OneDevAPIError", "Repository not found")

\* onedev_client.py lines 90-129
OneDevClient_get_repository(name, get) ==
  except_clauses(get_repository_try(name, get))

\* onedev_client.py lines 54-81: the try block of create_repository
create_repository_try(name, strategy, post, get) ==
  IF post.raises # None THEN Raises(post.raises, None)
  ELSE IF post.status_code = 201
       THEN IF post.json THEN Returns(Descriptor(name, post))
            ELSE Raises("JSONDecodeError", None)
       ELSE IF post.status_code = 409
            THEN IF strategy = "use_existing"
                 THEN OneDevClient_get_repository(name, get)
                 ELSE Raises("OneDevAPIError", "already exists")
            ELSE Raises("OneDevAPIError", "Failed to create repository")

\* onedev_client.py lines 28-88
OneDevClient_create_repository_mut(name, strategy, post, get) ==
  IF post.raises # None THEN Raises("OneDevAPIError", "HTTP error")
  ELSE IF post.status_code = 201
       THEN IF post.json THEN Returns(Descriptor(name, post))
            ELSE Raises("OneDevAPIError", "Unexpected error")
       ELSE IF post.status_code = 409
            THEN IF strategy = "fail"
                 THEN LET existing == OneDevClient_get_repository(name, get)
                      IN IF existing.raised = None THEN existing
                         ELSE Raises("OneDevAPIError", "Unexpected error")
                 ELSE Raises("OneDevAPIError", "Unexpected error: already exists")
            ELSE Raises("OneDevAPIError", "Unexpected error: Failed to create repository")
OneDevClient_create_repository(name, strategy, post, get) ==
  except_clauses(create_repository_try(name, strategy, post, get))

\* the inputs of one create_repository call: the requested name, the
\* configured strategy, and what the POST and the GET will give
CreateInputs ==
  {[name |-> u, strategy |-> g, post |-> p, get |-> q] :
     u \in Urls, g \in ConflictStrategies,
     p \in HttpResponses({201, 409, 500}), q \in HttpResponses({200, 404})}

InitOneDev ==
  /\ repositories = <<>>
  /\ sync_logs = <<>>
  /\ webhook_events = <<>>
  /\ pc = [t \in Tasks |-> "idle"]
  /\ \E in \in CreateInputs : event = [t \in Tasks |-> in]
  /\ attempt = [t \in Tasks |-> 0]
  /\ repo_id = [t \in Tasks |-> NoneId]
  /\ onedev_repo = [t \in Tasks |-> NoRepo]
  /\ exc = [t \in Tasks |-> None]
  /\ result = [t \in Tasks |-> NoResult]
  /\ hist = HistInit

\* one call create_repository(name): the descriptor it returns goes to
\* onedev_repo[t], the exception it raises to exc[t]
create_repository_call(t) ==
  /\ pc[t] = "idle"
  /\ LET out == OneDevClient_create_repository(event[t].name, event[t].strategy,
                                               event[t].post, event[t].get)
     IN /\ onedev_repo' = [onedev_repo EXCEPT ![t] = out.repo]
        /\ exc' = [exc EXCEPT ![t] = out.raised]
        /\ pc' = [pc EXCEPT ![t] = IF out.raised = None THEN "returned" ELSE "raised"]
  /\ UNCHANGED <<repositories, sync_logs, webhook_events, event, attempt,
                 repo_id, result, hist>>

NextOneDev == \E t \in Tasks : create_repository_call(t)

SpecOneDev == InitOneDev /\ [][NextOneDev]_vars

\* ------------------------------------- GitOperations.sync_repository on its own
InitGit ==
  /\ repositories = <<>>
  /\ sync_logs = <<>>
  /\ webhook_events = <<>>
  /\ pc = [t \in Tasks |-> "idle"]
  /\ \E f \in GitFaults : event = [t \in Tasks |-> f]
  /\ attempt = [t \in Tasks |-> 0]
  /\ repo_id = [t \in Tasks |-> NoneId]
  /\ onedev_repo = [t \in Tasks |-> NoRepo]
  /\ exc = [t \in Tasks |-> None]
  /\ result = [t \in Tasks |-> NoResult]
  /\ hist = HistInit

\* the call of sync_repository(source_url, target_url, branch)
sync_repository_call(t) ==
  /\ pc[t] = "idle"
  /\ pc' = [pc EXCEPT ![t] = "sync_repository"]
  /\ UNCHANGED <<repositories, sync_logs, webhook_events, event, attempt,
                 repo_id, onedev_repo, exc, result, hist>>

\* the call ends, if the git operations end: the exception it raises goes
\* to exc[t], the state of its temporary directory to result[t].status
sync_repository_end(t) ==
  /\ pc[t] = "sync_repository"
  /\ LET out == sync_repository(event[t])
     IN /\ out.ends
        /\ pc' = [pc EXCEPT ![t] = IF out.raised = None THEN "returned" ELSE "raised"]
        /\ exc' = [exc EXCEPT ![t] = out.raised]
        /\ result' = [result EXCEPT ![t].status =
                        IF ~out.created THEN "never created"
                        ELSE IF out.exists THEN "exists" ELSE "removed"]
  /\ UNCHANGED <<repositories, sync_logs, webhook_events, event, attempt,
                 repo_id, onedev_repo, hist>>

NextGit ==
  \/ \E t \in Tasks : sync_repository_call(t)
  \/ \E t \in Tasks : sync_repository_end(t)

\* every call that can take a step eventually takes it
SpecGit == InitGit /\ [][NextGit]_vars /\ WF_vars(NextGit)

\* ------------------------------- with_retry / retry_with_backoff on their own
\* the exception kinds a wrapped function may raise: the retried ones, the
\* source API error, and kinds outside the service's hierarchy
ExceptionKinds ==
  {"RetryableError", "GitOperationError", "OneDevAPIError", "GitHubAPIError",
   StorageError, "OSError"}

\* retry.py lines 82-91 and 152-161: the wrapper is called and starts its
\* first attempt
with_retry_call(t) ==
  /\ pc[t] = "idle"
  /\ attempt' = [attempt EXCEPT ![t] = 1]
  /\ pc' = [pc EXCEPT ![t] = "func"]
  /\ UNCHANGED <<repositories, sync_logs, webhook_events, event, repo_id,
                 onedev_repo, exc, result, hist>>

\* retry.py lines 98-103: the wrapped function returns and the wrapper
\* returns its result
func_returns(t) ==
  /\ pc[t] = "func"
  /\ result' = [result EXCEPT ![t].status = "success"]
  /\ exc' = [exc EXCEPT ![t] = None]
  /\ pc' = [pc EXCEPT ![t] = "returned"]
  /\ UNCHANGED <<repositories, sync_logs, webhook_events, event, attempt,
                 repo_id, onedev_repo, hist>>

\* retry.py lines 104-112: the wrapped function raises e, kept in
\* result[t].status, and the wrapper re-raises it into the AsyncRetrying
\* context; exc[t] is what the wrapper holds or lets out
func_raises(t) ==
  /\ pc[t] = "func"
  /\ \E e \in ExceptionKinds :
       /\ result' = [result EXCEPT ![t].status = e]
       /\ RaiseToWrapper(t, e)
  /\ UNCHANGED <<repositories, sync_logs, webhook_events, event, attempt,
                 repo_id, onedev_repo, hist>>

\* retry.py lines 91-93: after the backoff sleep the next attempt starts
next_attempt(t) ==
  /\ pc[t] = "backoff"
  /\ attempt' = [attempt EXCEPT ![t] = @ + 1]
  /\ pc' = [pc EXCEPT ![t] = "func"]
  /\ UNCHANGED <<repositories, sync_logs, webhook_events, event, repo_id,
                 onedev_repo, exc, result, hist>>

NextRetry ==
  \/ \E t \in Tasks : with_retry_call(t)
  \/ \E t \in Tasks : func_returns(t)
  \/ \E t \in Tasks : func_raises(t)
  \/ \E t \in Tasks : next_attempt(t)

SpecRetry == Init /\ [][NextRetry]_vars

\* ------------------------------- _generate_onedev_name on its own
\* characters of owner logins and repository names: a lower-case and an
\* upper-case letter, the two characters that are replaced, and the hyphen
NameChars == {"a", "A", ".", "_", "-"}
Names == UNION {[1..k -> NameChars] : k \in 0..MaxNameLen}
\* settings.onedev_repo_prefix
Prefixes == {<<"g", "h", "-">>, <<"G", "_">>}

\* str.replace for one-character old and new
replace(str, old, new) ==
  [i \in 1..Len(str) |-> IF str[i] = old THEN new ELSE str[i]]

\* str.lower
lower(str) ==
  [i \in 1..Len(str) |-> IF str[i] = "A" THEN "a" ELSE str[i]]

\* sync_orchestrator.py lines 224-227
generate_onedev_name_mut(prefix, owner, repo) ==
  prefix \o lower(replace(owner \o <<"-">> \o repo, ".", "-"))
generate_onedev_name(prefix, owner, repo) ==
  prefix \o lower(replace(replace(owner \o <<"-">> \o repo, ".", "-"), "_", "-"))

InitName ==
  /\ repositories = <<>>
  /\ sync_logs = <<>>
  /\ webhook_events = <<>>
  /\ pc = [t \in Tasks |-> "idle"]
  /\ \E p \in Prefixes, o \in Names, r \in Names :
       event = [t \in Tasks |-> [prefix |-> p, owner |-> o, repo |-> r]]
  /\ attempt = [t \in Tasks |-> 0]
  /\ repo_id = [t \in Tasks |-> NoneId]
  /\ onedev_repo = [t \in Tasks |-> NoRepo]
  /\ exc = [t \in Tasks |-> None]
  /\ result = [t \in Tasks |-> NoResult]
  /\ hist = HistInit

\* one call _generate_onedev_name(owner, repo) under the configured
\* prefix; the name goes to onedev_repo[t].name
generate_onedev_name_call(t) ==
  /\ pc[t] = "idle"
  /\ onedev_repo' = [onedev_repo EXCEPT ![t].name =
                       generate_onedev_name(event[t].prefix, event[t].owner, event[t].repo)]
  /\ pc' = [pc EXCEPT ![t] = "returned"]
  /\ UNCHANGED <<repositories, sync_logs, webhook_events, event, attempt,
                 repo_id, exc, result, hist>>

NextName == \E t \in Tasks : generate_onedev_name_call(t)

SpecName == InitName /\ [][NextName]_vars

\* ------------------------------- the backoff waits of get_retry_config
\* @with_retry(max_attempts=3, min_wait=4, max_wait=60); multiplier keeps
\* its default DEFAULT_MULTIPLIER
min_wait == 4
max_wait == 60
multiplier == 2

Max(a, b) == IF a >= b THEN a ELSE b
Min(a, b) == IF a <= b THEN a ELSE b

\* wait=wait_exponential(multiplier=multiplier, min=min_wait, max=max_wait)
\* (retry.py lines 53-57), called by AsyncRetrying after failed attempt
\* number attempt_number: exp_base defaults to 2 and the wait is
\* max(max(0, min), min(multiplier * exp_base ** (attempt_number - 1), max))
wait_exponential_mut(mult, min, max, attempt_number) ==
  Max(Max(0, min), Min(mult * 2 ^ attempt_number, max))
wait_exponential(mult, min, max, attempt_number) ==
  Max(Max(0, min), Min(mult * 2 ^ (attempt_number - 1), max))

\* the configurations tried: the orchestrator's and others with
\* min_wait <= max_wait, some with the first product below min_wait, some
\* with it above max_wait
WaitConfigs ==
  {c \in [multiplier : {1, multiplier, 3, 70}, min_wait : {0, 1, min_wait},
          max_wait : {1, 10, max_wait}] : c.min_wait <= c.max_wait}

InitWait ==
  /\ repositories = <<>>
  /\ sync_logs = <<>>
  /\ webhook_events = <<>>
  /\ pc = [t \in Tasks |-> "idle"]
  /\ \E c \in WaitConfigs : event = [t \in Tasks |-> c]
  /\ attempt = [t \in Tasks |-> 0]
  /\ repo_id = [t \in Tasks |-> NoneId]
  /\ onedev_repo = [t \in Tasks |-> NoRepo]
  /\ exc = [t \in Tasks |-> None]
  /\ result = [t \in Tasks |-> [NoResult EXCEPT !.status = <<>>]]
  /\ hist = HistInit

\* retry.py lines 91-112 under a configuration: attempt number
\* attempt[t] + 1 fails with a retried kind and the wrapper sleeps the wait
\* of that attempt number before the next invocation; result[t].status is
\* the sequence of the waits so far
attempt_fails(t) ==
  /\ attempt[t] < MaxAttemptNumber
  /\ attempt' = [attempt EXCEPT ![t] = @ + 1]
  /\ result' = [result EXCEPT ![t].status =
                  Append(@, wait_exponential(event[t].multiplier, event[t].min_wait,
                                             event[t].max_wait, attempt[t] + 1))]
  /\ pc' = [pc EXCEPT ![t] = "backoff"]
  /\ UNCHANGED <<repositories, sync_logs, webhook_events, event, repo_id,
                 onedev_repo, exc, hist>>

NextWait == \E t \in Tasks : attempt_fails(t)

SpecWait == InitWait /\ [][NextWait]_vars

\* ------------------------------- the two client calls side by side
\* one call get_repository(name): the descriptor it returns goes to
\* onedev_repo[t], the exception it raises to exc[t]; result[t].status
\* tells the call from a create_repository call
get_repository_call(t) ==
  /\ pc[t] = "idle"
  /\ LET out == OneDevClient_get_repository(event[t].name, event[t].get)
     IN /\ onedev_repo' = [onedev_repo EXCEPT ![t] = out.repo]
        /\ exc' = [exc EXCEPT ![t] = out.raised]
        /\ pc' = [pc EXCEPT ![t] = IF out.raised = None THEN "returned" ELSE "raised"]
  /\ result' = [result EXCEPT ![t].status = "get_repository"]
  /\ UNCHANGED <<repositories, sync_logs, webhook_events, event, attempt,
                 repo_id, hist>>

NextOneDevCalls ==
  \/ \E t \in Tasks : create_repository_call(t)
  \/ \E t \in Tasks : get_repository_call(t)

SpecOneDevCalls == InitOneDev /\ [][NextOneDevCalls]_vars

\* ------------------------------- two star events and their target names
\* owner logins tried (one character) with every repository name of Names
Owners == {n \in Names : Len(n) = 1}

InitTarget ==
  /\ repositories = <<>>
  /\ sync_logs = <<>>
  /\ webhook_events = <<>>
  /\ pc = [t \in Tasks |-> "idle"]
  /\ \E p \in Prefixes, g \in ConflictStrategies :
       event = [t \in Tasks |-> [prefix |-> p, strategy |-> g, owner |-> <<>>, repo |-> <<>>]]
  /\ attempt = [t \in Tasks |-> 0]
  /\ repo_id = [t \in Tasks |-> NoneId]
  /\ onedev_repo = [t \in Tasks |-> NoRepo]
  /\ exc = [t \in Tasks |-> None]
  /\ result = [t \in Tasks |-> NoResult]
  /\ hist = HistInit

\* sync_orchestrator.py lines 101-104: the name of the target repository is
\* derived from event.repository.owner.login and event.repository.name
target_name(t) ==
  /\ pc[t] = "idle"
  /\ \E o \in Owners, r \in Names :
       /\ event' = [event EXCEPT ![t].owner = o, ![t].repo = r]
       /\ onedev_repo' = [onedev_repo EXCEPT ![t].name =
                            generate_onedev_name(event[t].prefix, o, r)]
  /\ pc' = [pc EXCEPT ![t] = "provision"]
  /\ UNCHANGED <<repositories, sync_logs, webhook_events, attempt, repo_id,
                 exc, result, hist>>

\* the target server's projects: the calls that were answered with a
\* descriptor, by name; the id of a project is the number of the call that
\* created it
Provisioned(name) == {s \in Tasks : pc[s] = "returned" /\ onedev_repo[s].name = name}
ProjectId(name) == CHOOSE i \in {onedev_repo[s].id : s \in Provisioned(name)} : TRUE

\* the server's answers for a name: to the POST, 201 with the new project
\* or 409 when the name is taken; to the GET, 200 with the project of that
\* name or 404
ServerPost(t, name) ==
  IF Provisioned(name) # {}
  THEN [raises |-> None, status_code |-> 409, json |-> TRUE, id |-> NoneId, name |-> None]
  ELSE [raises |-> None, status_code |-> 201, json |-> TRUE, id |-> t, name |-> name]
ServerGet(name) ==
  IF Provisioned(name) # {}
  THEN [raises |-> None, status_code |-> 200, json |-> TRUE, id |-> ProjectId(name), name |-> name]
  ELSE [raises |-> None, status_code |-> 404, json |-> FALSE, id |-> NoneId, name |-> None]

\* sync_orchestrator.py lines 105-128: create_repository(name) against the
\* server, then the transfer into the git_url of the descriptor it returned
target_provision(t) ==
  /\ pc[t] = "provision"
  /\ LET name == onedev_repo[t].name
         out == OneDevClient_create_repository(name, event[t].strategy,
                                               ServerPost(t, name), ServerGet(name))
     IN /\ onedev_repo' = [onedev_repo EXCEPT ![t] =
                             IF out.raised = None THEN out.repo ELSE @]
        /\ exc' = [exc EXCEPT ![t] = out.raised]
        /\ pc' = [pc EXCEPT ![t] = IF out.raised = None THEN "returned" ELSE "raised"]
  /\ UNCHANGED <<repositories, sync_logs, webhook_events, event, attempt,
                 repo_id, result, hist>>

NextTarget ==
  \/ \E t \in Tasks : target_name(t)
  \/ \E t \in Tasks : target_provision(t)

SpecTarget == InitTarget /\ [][NextTarget]_vars

\* ------------------------------------------------------------ properties
\* rows of the ledger seen through the observation record
RowsCreatedBy(t) == {id \in 1..Len(repositories) : hist.creator[id] = t}
LogsOf(id) == {i \in 1..Len(sync_logs) : sync_logs[i].repository_id = id}
EventRows(eid) == {i \in 1..Len(webhook_events) : webhook_events[i].event_id = eid}

RECURSIVE IsSubsequence(_, _)
IsSubsequence(s, w) ==
  IF s = <<>> THEN TRUE
  ELSE IF w = <<>> THEN FALSE
  ELSE IF Head(s) = Head(w) THEN IsSubsequence(Tail(s), Tail(w))
  ELSE IsSubsequence(s, Tail(w))

\* C1: in every reachable state the ledger holds at most one repositories
\* row per source url (github_url), whatever the interleaving of tasks and
\* retry re-invocations.
C1_OneRowPerSourceUrl ==
  \A i, j \in 1..Len(repositories) :
    repositories[i].github_url = repositories[j].github_url => i = j

\* C1 witness: two tasks for the same url both passed the lookup, one
\* created the row and the other was refused by the uniqueness constraint.
C1_Witness ==
  \E s, t \in Tasks :
    /\ s # t
    /\ event[s].clone_url = event[t].clone_url
    /\ RowsCreatedBy(s) # {}
    /\ pc[t] = "raised"
    /\ exc[t] = IntegrityErrorGithubUrl

\* C2: a task that starts after the task that created the row of its url
\* has ended returns already_synced with that row's id and onedev_url; it
\* makes no row of its own, and it can only raise at the storage layer
\* (a storage failure, or its own delivery id already recorded).
C2_SecondEventAlreadySynced ==
  \A t \in Tasks :
    hist.after[t] # NoneId =>
      /\ pc[t] = "returned" =>
            result[t] = [status |-> "already_synced",
                         repository_id |-> hist.after[t],
                         onedev_url |-> repositories[hist.after[t]].onedev_url]
      /\ pc[t] = "raised" => exc[t] \in {StorageError, IntegrityErrorEventId}
      /\ RowsCreatedBy(t) = {}

\* C2 witness: E1 was provisioned and ended, E2 with another delivery id
\* came later and returned.
C2_Witness ==
  \E t \in Tasks :
    /\ hist.after[t] # NoneId
    /\ pc[t] = "returned"
    /\ result[t].onedev_url # NoneUrl
    /\ event[t].delivery_id # event[hist.creator[hist.after[t]]].delivery_id

\* C3: create_repository and sync_repository are each called at most once
\* per source url.
C3_AtMostOnceSideEffects ==
  \A u \in Urls : hist.provision[u] <= 1 /\ hist.transfer[u] <= 1

\* C3 witness: for one url both calls were made, the task that made them
\* went through a retry re-invocation, and a second task for the url ended.
C3_Witness ==
  \E s, t \in Started :
    /\ s # t
    /\ event[s].clone_url = event[t].clone_url
    /\ hist.provision[event[s].clone_url] = 1
    /\ hist.transfer[event[s].clone_url] = 1
    /\ attempt[s] = 2
    /\ Ended(s)
    /\ Ended(t)

\* C4 (as claimed): the loser of a create race gets already_synced; the
\* uniqueness error of repositories.github_url never reaches the caller.
C4_DuplicateKeyNeverPropagated ==
  \A t \in Tasks : pc[t] = "raised" => exc[t] # IntegrityErrorGithubUrl

\* C5 (as claimed): the committed status values of every row form a
\* subsequence of one of the three legal orders.
C5_StateOrdering ==
  \A id \in 1..Len(hist.statuses) :
    \E w \in {<<"pending", "in_progress", "cloning", "completed">>,
              <<"pending", "in_progress", "failed">>,
              <<"pending", "in_progress", "cloning", "failed">>} :
      IsSubsequence(hist.statuses[id], w)

\* C6 (as claimed): when the provisioning of a task's row failed with
\* OneDevAPIError and the task has given up, create_repository was called
\* max_attempts times and the error raised to the caller is that error.
C6_ProvisioningRetriedToCap ==
  \A t \in Tasks :
    ( /\ pc[t] = "raised"
      /\ \E id \in RowsCreatedBy(t) : repositories[id].error_message = "OneDevAPIError" )
    => /\ hist.prov[t] = max_attempts
       /\ exc[t] = "OneDevAPIError"

\* C7: when process_star_event re-raises a retryable kind, the row it
\* created is failed with the error text, exactly one sync log (failed, same
\* text) exists for it, and the webhook event of the delivery id is
\* processed, linked to the row, with processing_error set to the text.
C7_RetryableFailureRecorded ==
  \A t \in Tasks :
    (hist.reraised[t] /\ exc[t] \in OrchestratorRetryable) =>
      /\ repo_id[t] # NoneId
      /\ repositories[repo_id[t]].sync_status = "failed"
      /\ repositories[repo_id[t]].error_message = exc[t]
      /\ Cardinality(LogsOf(repo_id[t])) = 1
      /\ \A i \in LogsOf(repo_id[t]) :
            sync_logs[i].status = "failed" /\ sync_logs[i].error_message = exc[t]
      /\ Cardinality(EventRows(event[t].delivery_id)) = 1
      /\ \A i \in EventRows(event[t].delivery_id) :
            /\ webhook_events[i].processed
            /\ webhook_events[i].processing_error = exc[t]
            /\ webhook_events[i].repository_id = repo_id[t]

\* C7 witness: a transfer failed with GitOperationError and the except
\* clause re-raised it.
C7_Witness ==
  \E t \in Tasks :
    /\ hist.reraised[t]
    /\ exc[t] = "GitOperationError"
    /\ hist.transfer[event[t].clone_url] = 1

\* C8 (as claimed): whenever an unexpected exception is caught after the
\* row was created, the row ends failed with the error text, the webhook
\* event keeps processed = false, and the wrapper gives up at once.
C8_UnexpectedFailureRecorded ==
  \A t \in Tasks :
    (pc[t] = "raised" /\ hist.caught[t] # None /\ repo_id[t] # NoneId) =>
      /\ repositories[repo_id[t]].sync_status = "failed"
      /\ repositories[repo_id[t]].error_message = hist.caught[t]
      /\ \A i \in EventRows(event[t].delivery_id) : ~webhook_events[i].processed
      /\ attempt[t] = 1

\* C8 (amended): an unexpected exception caught after the row was created
\* always ends the task at once (no backoff, no further attempt) with the
\* webhook event left at processed = false; the row is failed with the
\* error text whenever the except clause got to its `raise`, that is
\* whenever its own status write committed.
C8_UnexpectedFailureRecordedIfWritten ==
  \A t \in Tasks :
    (hist.caught[t] # None /\ repo_id[t] # NoneId) =>
      /\ pc[t] = "raised"
      /\ attempt[t] = 1
      /\ Cardinality(EventRows(event[t].delivery_id)) = 1
      /\ \A i \in EventRows(event[t].delivery_id) : ~webhook_events[i].processed
      /\ hist.reraised[t] =>
            /\ repositories[repo_id[t]].sync_status = "failed"
            /\ repositories[repo_id[t]].error_message = hist.caught[t]
            /\ exc[t] = hist.caught[t]

\* C8 witness: the transfer raised OSError after the row was created, the
\* except clause recorded it and re-raised.
C8_Witness ==
  \E t \in Tasks :
    /\ pc[t] = "raised"
    /\ hist.caught[t] = "OSError"
    /\ hist.reraised[t]
    /\ repo_id[t] # NoneId

\* C9 (as claimed): once the invocation that created a row has ended with
\* the row completed or failed, the row has exactly one sync log, success
\* for completed and failed for failed.
C9_OneLogPerTerminalOutcome ==
  \A t \in Tasks :
    Ended(t) =>
      \A id \in RowsCreatedBy(t) :
        repositories[id].sync_status \in {"completed", "failed"} =>
          /\ Cardinality(LogsOf(id)) = 1
          /\ \A i \in LogsOf(id) :
                sync_logs[i].status =
                  IF repositories[id].sync_status = "completed" THEN "success" ELSE "failed"

\* C10: a task that created the row of its url and returned, returned
\* success; the row is then completed with last_synced_at set and no error
\* message, has exactly one sync log (success), one provisioning and one
\* transfer call were made, and the webhook event is processed, linked to
\* the row, without processing error.
C10_FirstEventSucceeds ==
  \A t \in Tasks :
    \A id \in RowsCreatedBy(t) :
      pc[t] = "returned" =>
        /\ result[t] = [status |-> "success", repository_id |-> id,
                        onedev_url |-> repositories[id].onedev_url]
        /\ repositories[id].onedev_url # NoneUrl
        /\ repositories[id].sync_status = "completed"
        /\ repositories[id].last_synced_at # None
        /\ repositories[id].error_message = None
        /\ Cardinality(LogsOf(id)) = 1
        /\ \A i \in LogsOf(id) : sync_logs[i].status = "success"
        /\ hist.provision[repositories[id].github_url] = 1
        /\ hist.transfer[repositories[id].github_url] = 1
        /\ Cardinality(EventRows(event[t].delivery_id)) = 1
        /\ \A i \in EventRows(event[t].delivery_id) :
              /\ webhook_events[i].processed
              /\ webhook_events[i].repository_id = id
              /\ webhook_events[i].processing_error = None

\* C10 witness: a first star event ran to the end and returned success.
C10_Witness ==
  \E t \in Tasks :
    /\ pc[t] = "returned"
    /\ result[t].status = "success"
    /\ RowsCreatedBy(t) # {}

\* C11 (as claimed): the three target linkage columns of every row are all
\* null or all non-null.
C11_LinkageAllOrNothing ==
  \A id \in 1..Len(repositories) :
    \/ /\ repositories[id].onedev_url = NoneUrl
       /\ repositories[id].onedev_repo_name = None
       /\ repositories[id].onedev_project_id = NoneId
    \/ /\ repositories[id].onedev_url # NoneUrl
       /\ repositories[id].onedev_repo_name # None
       /\ repositories[id].onedev_project_id # NoneId

\* C12: a row has a non-null error_message only while its sync_status is
\* failed.
C12_ErrorMessageOnlyWhenFailed ==
  \A id \in 1..Len(repositories) :
    repositories[id].error_message # None => repositories[id].sync_status = "failed"

\* C12 witness: one row was failed with its error text by an except clause
\* after it had gone through non-failed statuses, and another row completed.
C12_Witness ==
  \E i, j \in 1..Len(repositories) :
    /\ repositories[i].sync_status = "failed"
    /\ repositories[i].error_message # None
    /\ Len(hist.statuses[i]) >= 3
    /\ repositories[j].sync_status = "completed"

\* C13: the two steps of an invocation that ends already_synced change the
\* ledger only by appending the webhook event of the delivery id: the
\* insert of step 1 leaves repositories and sync_logs as they are and the
\* earlier webhook events untouched, and the lookup that returns
\* already_synced writes nothing at all.
C13_AlreadySyncedWritesOnlyEvent ==
  [][\A t \in Tasks :
       /\ (pc[t] = "store_event" /\ pc'[t] = "lookup") =>
             /\ repositories' = repositories
             /\ sync_logs' = sync_logs
             /\ Len(webhook_events') = Len(webhook_events) + 1
             /\ SubSeq(webhook_events', 1, Len(webhook_events)) = webhook_events
             /\ webhook_events'[Len(webhook_events')].event_id = event[t].delivery_id
       /\ (pc[t] = "lookup" /\ pc'[t] = "returned") =>
             /\ result'[t].status = "already_synced"
             /\ repositories' = repositories
             /\ sync_logs' = sync_logs
             /\ webhook_events' = webhook_events
    ]_vars

\* C13 witness: an invocation ended already_synced while the ledger held a
\* row with a sync log and the webhook events of both deliveries.
C13_Witness ==
  \E t \in Tasks :
    /\ pc[t] = "returned"
    /\ result[t].status = "already_synced"
    /\ Len(sync_logs) = 1
    /\ Len(webhook_events) = 2

\* C14: create_repository is called only while the committed status of the
\* caller's row is in_progress; sync_repository is called only after
\* create_repository returned in this attempt (no exception was raised in
\* it) and with the committed row in cloning carrying the returned linkage.
C14_StepsCommittedInOrder ==
  [][\A t \in Tasks :
       /\ (pc[t] = "provision" /\ pc'[t] # "provision") =>
             /\ repo_id[t] # NoneId
             /\ repositories[repo_id[t]].sync_status = "in_progress"
             /\ hist'.prov[t] = hist.prov[t] + 1
       /\ (pc[t] = "transfer" /\ pc'[t] # "transfer") =>
             /\ repo_id[t] # NoneId
             /\ exc[t] = None
             /\ hist.prov[t] = 1
             /\ onedev_repo[t] \in ProvisionerResponses(event[t].clone_url)
             /\ repositories[repo_id[t]].sync_status = "cloning"
             /\ repositories[repo_id[t]].onedev_url = onedev_repo[t].url
             /\ repositories[repo_id[t]].onedev_repo_name = onedev_repo[t].name
             /\ repositories[repo_id[t]].onedev_project_id = onedev_repo[t].id
             /\ hist'.transfer[event[t].clone_url] = hist.transfer[event[t].clone_url] + 1
    ]_vars

\* C14 witness: a transfer was called and returned.
C14_Witness ==
  \E t \in Tasks :
    /\ pc[t] = "completed"
    /\ hist.transfer[event[t].clone_url] = 1

\* C15 (as claimed): a request whose orchestration failed with a retryable
\* kind that was recorded (its row is failed with that error and has a
\* failed sync log) is answered 200 with the failure in the result.
C15_DomainFailureAnswered200 ==
  \A t \in Tasks : \A r \in RowsCreatedBy(t) :
    ( /\ Ended(t)
      /\ repositories[r].sync_status = "failed"
      /\ repositories[r].error_message \in OrchestratorRetryable
      /\ \E i \in LogsOf(r) : sync_logs[i].status = "failed" ) =>
      /\ Response(t).code = 200
      /\ Response(t).detail = "failed"

\* C16 (as claimed): every request that ended got one of the responses
\* 401, 400, 200 with status success, ignored or already_synced, or 500
\* with the structured error body; no exception left the handler.
C16_EveryRequestAnswered ==
  \A t \in Arrived :
    (Ended(t) \/ pc[t] \in HandlerExits) =>
      /\ pc[t] # "escaped"
      /\ \/ Response(t).code \in {400, 401} /\ Response(t).status = "error"
         \/ /\ Response(t).code = 200
            /\ \/ Response(t).status = "ignored"
               \/ /\ Response(t).status = "success"
                  /\ Response(t).detail \in {"success", "already_synced"}
         \/ /\ Response(t).code = 500
            /\ Response(t).detail = "Internal server error"

\* C17 (as claimed): a request whose signature header is not the valid
\* signature of its body is answered 401 and nothing else happens for it:
\* no attempt of the orchestrator, no row, no provisioning.
C17_BadSignatureAnswered401 ==
  \A t \in Arrived :
    event[t].signature # ValidSignature(github_webhook_secret, event[t].body) =>
      /\ pc[t] = "responded"
      /\ Response(t).code = 401
      /\ attempt[t] = 0
      /\ repo_id[t] = NoneId
      /\ hist.prov[t] = 0

\* C18 (as claimed): a correctly signed request whose event type is not
\* watch or whose action is not started is answered 200 ignored with a
\* reason and never reaches the orchestrator; only watch + started does.
C18_OthersIgnored ==
  \A t \in Arrived :
    /\ ( /\ event[t].signature = ValidSignature(github_webhook_secret, event[t].body)
         /\ event[t].gh_event # "watch" \/ event[t].body.action # "started" ) =>
         /\ pc[t] = "responded"
         /\ Response(t).code = 200
         /\ Response(t).status = "ignored"
         /\ Response(t).detail # None
         /\ attempt[t] = 0
    /\ attempt[t] > 0 =>
         /\ event[t].gh_event = "watch"
         /\ event[t].body.action = "started"

\* C19 (as claimed): a call of verify_github_signature returns, and it
\* returns true exactly when the header is "sha256=" followed by the hex
\* HMAC-SHA256 of the payload under the configured secret.
C19_SignatureValidIff ==
  \A t \in Tasks :
    pc[t] # "idle" =>
      /\ pc[t] = "returned"
      /\ result[t].status = "True" <=>
           event[t].signature = ValidSignature(github_webhook_secret, event[t].body)

\* C20 (as claimed): on a 409 answer, create_repository returns the
\* existing repository without raising under use_existing, and raises the
\* target error without returning a repository under fail.
C20_ConflictPolicy ==
  \A t \in Tasks :
    (pc[t] # "idle" /\ event[t].post.raises = None /\ event[t].post.status_code = 409) =>
      /\ event[t].strategy = "use_existing" =>
           /\ pc[t] = "returned"
           /\ exc[t] = None
           /\ onedev_repo[t] # NoRepo
      /\ event[t].strategy = "fail" =>
           /\ pc[t] = "raised"
           /\ exc[t] = "OneDevAPIError"
           /\ onedev_repo[t] = NoRepo

\* C20 (amended): on a 409 answer under use_existing, create_repository
\* looks the repository up and, when the lookup answers 200 with a JSON
\* object, returns its descriptor without raising; when the lookup fails it
\* raises OneDevAPIError and returns nothing.  Under fail it raises
\* OneDevAPIError and returns nothing, whatever a lookup would give.
C20_ConflictPolicyWhenLookupSucceeds ==
  \A t \in Tasks :
    (pc[t] # "idle" /\ event[t].post.raises = None /\ event[t].post.status_code = 409) =>
      LET found == /\ event[t].get.raises = None
                   /\ event[t].get.status_code = 200
                   /\ event[t].get.json
      IN /\ (event[t].strategy = "use_existing" /\ found) =>
              /\ pc[t] = "returned"
              /\ exc[t] = None
              /\ onedev_repo[t] = Descriptor(event[t].name, event[t].get)
         /\ (event[t].strategy = "use_existing" /\ ~found) =>
              /\ pc[t] = "raised"
              /\ exc[t] = "OneDevAPIError"
              /\ onedev_repo[t] = NoRepo
         /\ event[t].strategy = "fail" =>
              /\ pc[t] = "raised"
              /\ exc[t] = "OneDevAPIError"
              /\ onedev_repo[t] = NoRepo

\* C20 witness: a 409 under use_existing was answered with the descriptor
\* of the lookup.
C20_Witness ==
  \E t \in Tasks :
    /\ pc[t] = "returned"
    /\ event[t].post.raises = None
    /\ event[t].post.status_code = 409
    /\ event[t].strategy = "use_existing"
    /\ onedev_repo[t].id = event[t].get.id
    /\ onedev_repo[t].id # NoneId

\* any step of the orchestration of task t
TaskStep(t) ==
  \/ store_event(t) \/ lookup(t) \/ create(t) \/ in_progress(t)
  \/ provision(t) \/ cloning(t) \/ transfer(t) \/ transfer_return(t)
  \/ completed(t) \/ success_log(t) \/ mark_processed(t)
  \/ except_retryable_record(t) \/ except_retryable_mark(t)
  \/ except_exception(t) \/ wrapper_retry(t)

\* C24 (as claimed): while a task is in its transfer, a task that handles
\* a star event for another source url and has not ended can take its next
\* step.
C24_OtherSyncsProceed ==
  \A s, t \in Started :
    ( /\ pc[t] = "sync_repository"
      /\ event[s].clone_url # event[t].clone_url
      /\ ~Ended(s) ) => ENABLED TaskStep(s)

\* the error a sync_repository call with faults f owes its caller: the
\* failure of the first step that failed
TransferError(f) ==
  IF f.mkdtemp # "ok" THEN "OSError"
  ELSE IF f.clone # "ok" \/ f.push # "ok" THEN "GitOperationError"
  ELSE None

\* C21 (as claimed): when sync_repository returns or raises, the temporary
\* directory it created does not exist, and the call raises exactly the
\* error of the transfer, whatever the cleanup did.
C21_TempDirRemoved ==
  \A t \in Tasks :
    Ended(t) =>
      /\ result[t].status # "exists"
      /\ exc[t] = TransferError(event[t])

\* C21 (amended): when sync_repository returns or raises, the temporary
\* directory it created does not exist unless removing it failed; the call
\* raises exactly the error of the transfer, whatever the cleanup did.
C21_TempDirRemovedUnlessCleanupFails ==
  \A t \in Tasks :
    Ended(t) =>
      /\ result[t].status = "exists" => event[t].rmtree # "ok"
      /\ event[t].rmtree = "ok" => result[t].status \in {"removed", "never created"}
      /\ exc[t] = TransferError(event[t])

\* C21 witness: a push failed after a clone, the directory was removed and
\* the call raised the transfer error.
C21_Witness ==
  \E t \in Tasks :
    /\ pc[t] = "raised"
    /\ event[t].clone = "ok"
    /\ event[t].push = "GitCommandError"
    /\ result[t].status = "removed"
    /\ exc[t] = "GitOperationError"

\* C25 (as claimed): every call of sync_repository eventually returns or
\* raises, also when a clone or a push never finishes by itself.
C25_TransferTerminates ==
  \A t \in Tasks : (pc[t] = "sync_repository") ~> Ended(t)

\* C22: an exception that leaves process_star_event and is not of a
\* retried kind ends the wrapper at once: no backoff, and once the wrapper
\* has raised there is no further invocation.
C22_NonRetryablePropagatesAtOnce ==
  [][\A t \in Tasks :
       /\ ( /\ pc[t] \notin {"backoff", "raised"}
            /\ pc'[t] \in {"backoff", "raised"}
            /\ exc'[t] \notin retry_exceptions ) => pc'[t] = "raised"
       /\ pc[t] = "raised" => (pc'[t] = "raised" /\ attempt'[t] = attempt[t])
    ]_vars

\* C22 witness: the duplicate-key error of the row insert left the wrapper
\* after the first invocation.
C22_Witness ==
  \E t \in Tasks :
    /\ pc[t] = "raised"
    /\ exc[t] = IntegrityErrorGithubUrl
    /\ attempt[t] = 1

\* C23 (as claimed): before the attempt cap is reached, the wrapper
\* re-invokes the function exactly when it raised GitHubAPIError,
\* OneDevAPIError or GitOperationError.
C23_RetriedKindsAreOrchestratorKinds ==
  [][\A t \in Tasks :
       (pc[t] = "func" /\ pc'[t] \in {"backoff", "raised"} /\ attempt[t] < max_attempts) =>
         (pc'[t] = "backoff" <=> result'[t].status \in OrchestratorRetryable)
    ]_vars

\* C29 (as claimed): when the last allowed attempt fails with a retried
\* kind, the wrapper raises RetryError.
C29_RetryErrorAfterLastAttempt ==
  \A t \in Tasks :
    ( /\ pc[t] = "raised"
      /\ attempt[t] = max_attempts
      /\ result[t].status \in retry_exceptions ) => exc[t] = "RetryError"

\* C30: a call through the wrapper invokes the function at least once and
\* at most max_attempts times, and after the wrapper has returned or raised
\* there is no further invocation.
C30_InvocationsWithinCap ==
  [][\A t \in Tasks :
       /\ attempt'[t] <= max_attempts
       /\ pc'[t] # "idle" => attempt'[t] >= 1
       /\ Ended(t) => (pc'[t] = pc[t] /\ attempt'[t] = attempt[t])
    ]_vars

\* C30 witness: the function failed twice with a retried kind and returned
\* on the last allowed invocation.
C30_Witness ==
  \E t \in Tasks :
    /\ pc[t] = "returned"
    /\ attempt[t] = max_attempts
    /\ result[t].status = "success"

\* C26: the generated name is the prefix, unchanged, followed by
\* owner + "-" + repo in which every dot and underscore has become a hyphen
\* and every letter lower case, character by character; two calls with the
\* same prefix, owner and repo give the same name.
C26_NameIsSanitizedJoin ==
  \A t \in Tasks :
    pc[t] = "returned" =>
      LET name == onedev_repo[t].name
          prefix == event[t].prefix
          joined == event[t].owner \o <<"-">> \o event[t].repo
      IN /\ Len(name) = Len(prefix) + Len(joined)
         /\ SubSeq(name, 1, Len(prefix)) = prefix
         /\ \A i \in 1..Len(joined) :
              name[Len(prefix) + i] =
                CASE joined[i] \in {".", "_"} -> "-"
                  [] joined[i] = "A" -> "a"
                  [] OTHER -> joined[i]
         /\ \A s \in Tasks :
              (pc[s] = "returned" /\ event[s] = event[t]) =>
                onedev_repo[s].name = name

\* C26 witness: owner "A." and repository "_a" under the prefix "gh-" gave
\* the name "gh-a---a", in two calls.
C26_Witness ==
  \E s, t \in Tasks :
    /\ s # t
    /\ pc[s] = "returned" /\ pc[t] = "returned"
    /\ event[t].prefix = <<"g", "h", "-">>
    /\ event[t].owner = <<"A", ".">>
    /\ event[t].repo = <<"_", "a">>
    /\ onedev_repo[t].name = <<"g", "h", "-", "a", "-", "-", "-", "a">>
    /\ onedev_repo[s].name = onedev_repo[t].name

\* C27 (as claimed): once a sync attempt has ended, the sync-operation
\* counter has been incremented and the active-sync gauge is back to its
\* value before the attempt.
C27_MetricsRecorded ==
  \A t \in Started :
    Ended(t) =>
      /\ hist.sync_operations_total >= 1
      /\ hist.active_syncs = 0

\* C28 (as claimed): when an invocation of process_star_event has returned
\* or raised, a webhook event whose event_id is the delivery id exists.
C28_EventAlwaysRecorded ==
  \A t \in Started :
    Ended(t) => EventRows(event[t].delivery_id) # {}

\* C28 (amended): the webhook event of the delivery id exists as soon as
\* an invocation is past its first step, before any other ledger write of
\* the task, unless the insert itself failed with a storage error; then the
\* task wrote nothing, and it raises that error without a second attempt.
C28_EventRecordedUnlessInsertFails ==
  \A t \in Started :
    EventRows(event[t].delivery_id) = {} =>
      \/ pc[t] = "store_event" /\ attempt[t] = 1
      \/ /\ exc[t] = StorageError
         /\ pc[t] \in {"except_exception", "raised"}
         /\ attempt[t] = 1
         /\ repo_id[t] = NoneId
         /\ RowsCreatedBy(t) = {}

\* C28 witness: an invocation ended with an unexpected failure of its
\* transfer and the webhook event of its delivery id is in the ledger.
C28_Witness ==
  \E t \in Started :
    /\ pc[t] = "raised"
    /\ exc[t] = "OSError"
    /\ hist.transfer[event[t].clone_url] = 1
    /\ Cardinality(EventRows(event[t].delivery_id)) = 1

\* C31: the wait after failed attempt n, before invocation n + 1, is
\* multiplier * 2^(n-1) when that lies in [min_wait, max_wait], min_wait
\* when it is below and max_wait when it is above; under the orchestrator's
\* settings every wait lies between 4 and 60 seconds and the waits never
\* decrease from one attempt to the next.
C31_WaitIsClampedExponential ==
  \A t \in Tasks :
    LET waits == result[t].status
        c == event[t]
    IN /\ Len(waits) = attempt[t]
       /\ \A n \in 1..Len(waits) :
            LET product == c.multiplier * 2 ^ (n - 1)
            IN /\ product < c.min_wait => waits[n] = c.min_wait
               /\ product > c.max_wait => waits[n] = c.max_wait
               /\ (c.min_wait <= product /\ product <= c.max_wait) => waits[n] = product
       /\ (c.multiplier = multiplier /\ c.min_wait = min_wait /\ c.max_wait = max_wait) =>
            /\ \A n \in 1..Len(waits) : min_wait <= waits[n] /\ waits[n] <= max_wait
            /\ \A n \in 2..Len(waits) : waits[n - 1] <= waits[n]

\* C31 witness: under the orchestrator's settings the waits went 4, 4, 8,
\* 16, 32 and then stayed at the cap of 60.
C31_Witness ==
  \E t \in Tasks :
    /\ event[t] = [multiplier |-> multiplier, min_wait |-> min_wait, max_wait |-> max_wait]
    /\ Len(result[t].status) >= 6
    /\ SubSeq(result[t].status, 1, 6) = <<4, 4, 8, 16, 32, 60>>

\* C32: a call of create_repository or get_repository ends in one of two
\* ways: it returns a descriptor of the requested name, or it raises
\* OneDevAPIError, a retried kind, and returns nothing.  It raises on a
\* transport failure, on a create answer other than 201 and 409, on a 409
\* under use_existing whose lookup fails, on a lookup answer other than 200,
\* and on an answer whose body cannot be decoded.
C32_OnlyTargetErrorRaised ==
  \A t \in Tasks :
    pc[t] # "idle" =>
      LET in == event[t]
          raised == /\ pc[t] = "raised"
                    /\ exc[t] = "OneDevAPIError"
                    /\ exc[t] \in retry_exceptions
                    /\ onedev_repo[t] = NoRepo
          returned == /\ pc[t] = "returned"
                      /\ exc[t] = None
                      /\ onedev_repo[t].url = <<"base_url", in.name>>
                      /\ onedev_repo[t].git_url = <<"base_url", in.name, ".git">>
          lookup_fails == \/ in.get.raises # None
                          \/ in.get.status_code # 200
                          \/ ~in.get.json
      IN /\ raised \/ returned
         /\ result[t].status = "get_repository" => (lookup_fails => raised)
         /\ result[t].status # "get_repository" =>
              /\ in.post.raises # None => raised
              /\ (in.post.raises = None /\ in.post.status_code \notin {201, 409}) => raised
              /\ (in.post.raises = None /\ in.post.status_code = 201 /\ ~in.post.json) => raised
              /\ ( /\ in.post.raises = None
                   /\ in.post.status_code = 409
                   /\ in.strategy = "use_existing"
                   /\ lookup_fails ) => raised

\* C32 witness: one create_repository call got a 409 under use_existing and
\* its lookup was answered 200 with a body that is not JSON, while a
\* get_repository call met the same answer; both raised OneDevAPIError.
C32_Witness ==
  \E s, t \in Tasks :
    /\ pc[s] = "raised" /\ pc[t] = "raised"
    /\ result[s].status = "get_repository"
    /\ result[t].status # "get_repository"
    /\ event[t].post.raises = None
    /\ event[t].post.status_code = 409
    /\ event[t].strategy = "use_existing"
    /\ event[t].get.raises = None
    /\ event[t].get.status_code = 200
    /\ ~event[t].get.json
    /\ exc[s] = "OneDevAPIError" /\ exc[t] = "OneDevAPIError"

\* C33: a step that changes the sync_status of a row is a step of the
\* invocation that inserted the row: the task that created it, in the
\* attempt that created it (its local repo_id is the row's id).  An
\* invocation that finds the row of its url at the lookup writes nothing and
\* ends, whatever the row's status: it returns already_synced or fails at
\* the storage layer, and calls neither create_repository nor
\* sync_repository.
C33_OnlyCreatorChangesStatus ==
  [][\A t \in Tasks :
       /\ \A id \in 1..Len(repositories) :
            ( /\ pc'[t] # pc[t]
              /\ repositories'[id].sync_status # repositories[id].sync_status ) =>
              /\ hist.creator[id] = t
              /\ repo_id[t] = id
              /\ attempt[t] = 1
       /\ ( /\ pc[t] = "lookup"
            /\ pc'[t] # "lookup"
            /\ RepositoryCRUD_get_by_github_url(repositories, event[t].clone_url) # NoneId ) =>
              /\ pc'[t] \in {"returned", "except_exception"}
              /\ repositories' = repositories
              /\ repo_id'[t] = NoneId
       /\ (pc[t] \in {"provision", "transfer"} /\ pc'[t] # pc[t]) =>
              /\ repo_id[t] # NoneId
              /\ hist.creator[repo_id[t]] = t
              /\ attempt[t] = 1
    ]_vars

\* C33 witness: the row of a url was left failed by its creator, whose
\* retry re-invocation has ended too, and a later star event for the url
\* returned already_synced with the row still failed.
C33_Witness ==
  \E s, t \in Tasks : \E id \in RowsCreatedBy(s) :
    /\ s # t
    /\ attempt[s] = 2
    /\ Ended(s)
    /\ repositories[id].sync_status = "failed"
    /\ event[t].clone_url = repositories[id].github_url
    /\ hist.after[t] = id
    /\ pc[t] = "returned"
    /\ result[t].status = "already_synced"

\* C34: an invocation whose delivery id is already in webhook_events when
\* it runs its first step, as is the case for every retry re-invocation,
\* fails in that step with a storage error that is not retried (the
\* uniqueness error of event_id, unless the storage itself fails) and never
\* reaches the lookup; the step and the except clause that follows write
\* nothing to the ledger and make no provisioning or transfer call, the
\* invocation has no row of its own, and the wrapper raises without another
\* attempt.
C34_DuplicateDeliveryFailsAtStepOne ==
  [][\A t \in Tasks :
       LET unchanged == /\ webhook_events' = webhook_events
                        /\ repositories' = repositories
                        /\ sync_logs' = sync_logs
                        /\ hist'.provision = hist.provision
                        /\ hist'.transfer = hist.transfer
       IN /\ (pc[t] = "backoff" /\ pc'[t] = "store_event") =>
               EventRows(event[t].delivery_id) # {}
          /\ ( /\ pc[t] = "store_event"
               /\ pc'[t] # "store_event"
               /\ EventRows(event[t].delivery_id) # {} ) =>
               /\ pc'[t] = "except_exception"
               /\ exc'[t] \in {IntegrityErrorEventId, StorageError}
               /\ exc'[t] \notin retry_exceptions
               /\ repo_id[t] = NoneId
               /\ unchanged
          /\ ( /\ pc[t] = "except_exception"
               /\ pc'[t] # "except_exception"
               /\ exc[t] = IntegrityErrorEventId ) =>
               /\ pc'[t] = "raised"
               /\ exc'[t] = IntegrityErrorEventId
               /\ attempt'[t] = attempt[t]
               /\ Cardinality(EventRows(event[t].delivery_id)) = 1
               /\ unchanged
          /\ (pc[t] = "raised" /\ exc[t] = IntegrityErrorEventId) =>
               (pc'[t] = "raised" /\ attempt'[t] = attempt[t])
    ]_vars

\* C34 witness: the retry re-invocation of one event and the redelivery of
\* its delivery id to another request both ended with the uniqueness error
\* of event_id, with one webhook event in the ledger.
C34_Witness ==
  \E s, t \in Tasks :
    /\ s # t
    /\ event[s].delivery_id = event[t].delivery_id
    /\ pc[s] = "raised" /\ exc[s] = IntegrityErrorEventId /\ attempt[s] = 2
    /\ pc[t] = "raised" /\ exc[t] = IntegrityErrorEventId /\ attempt[t] = 1
    /\ Len(webhook_events) = 1

\* C35 (as claimed): two star events with different (owner, repo) pairs get
\* different target names, and their transfers never go to the same target
\* repository.
C35_TargetNamesInjective ==
  \A s, t \in Tasks :
    ( /\ pc[s] # "idle" /\ pc[t] # "idle"
      /\ <<event[s].owner, event[s].repo>> # <<event[t].owner, event[t].repo>> ) =>
      /\ onedev_repo[s].name # onedev_repo[t].name
      /\ (pc[s] = "returned" /\ pc[t] = "returned") =>
            onedev_repo[s].git_url # onedev_repo[t].git_url

\* C36 (as claimed): once a row's sync_status completed is committed, no
\* step changes its sync_status or sets its error_message.
C36_CompletedIsAbsorbing ==
  [][\A id \in 1..Len(repositories) :
       repositories[id].sync_status = "completed" =>
         /\ repositories'[id].sync_status = "completed"
         /\ repositories'[id].error_message = None
    ]_vars

\* C37 (as claimed): an invocation returns already_synced only when the row
\* it found for its url is completed and has a target url.
C37_AlreadySyncedOnlyWhenCompleted ==
  [][\A t \in Tasks :
       (pc[t] = "lookup" /\ pc'[t] = "returned" /\ result'[t].status = "already_synced") =>
         LET existing_repo == RepositoryCRUD_get_by_github_url(repositories, event[t].clone_url)
         IN /\ existing_repo # NoneId
            /\ repositories[existing_repo].sync_status = "completed"
            /\ repositories[existing_repo].onedev_url # NoneUrl
    ]_vars

\* C38: in every reachable state a webhook event with processed = true is
\* linked to a row (repository_id is not null), the row inserted by the
\* invocation that recorded the event; its processing_error is null exactly
\* when that row reached completed, and the row is then completed, while
\* with a processing_error the row is failed with the same error text.  No
\* step sets processed back to false.
C38_ProcessedEventsLinked ==
  /\ [](\A i \in 1..Len(webhook_events) :
          webhook_events[i].processed =>
            LET id == webhook_events[i].repository_id
            IN /\ id # NoneId
               /\ id \in 1..Len(repositories)
               /\ event[hist.creator[id]].delivery_id = webhook_events[i].event_id
               /\ webhook_events[i].processing_error = None <=>
                    (\E k \in 1..Len(hist.statuses[id]) : hist.statuses[id][k] = "completed")
               /\ webhook_events[i].processing_error = None =>
                    repositories[id].sync_status = "completed"
               /\ webhook_events[i].processing_error # None =>
                    /\ repositories[id].sync_status = "failed"
                    /\ repositories[id].error_message = webhook_events[i].processing_error)
  /\ [][\A i \in 1..Len(webhook_events) :
          webhook_events[i].processed => webhook_events'[i].processed]_vars

\* C38 witness: one delivery was marked processed without error after its
\* row completed, another with the error of its failed provisioning, and
\* the task of the latter has gone through its retry re-invocation.
C38_Witness ==
  \E i, j \in 1..Len(webhook_events) :
    /\ webhook_events[i].processed
    /\ webhook_events[i].processing_error = None
    /\ webhook_events[j].processed
    /\ webhook_events[j].processing_error = "OneDevAPIError"
    /\ \E t \in Tasks :
         /\ event[t].delivery_id = webhook_events[j].event_id
         /\ attempt[t] = 2
         /\ Ended(t)

\* C39 (as claimed, for the invocations that end by returning a result):
\* when an invocation has returned, success or already_synced, the webhook
\* event it recorded for its delivery id is marked processed.
C39_RecordedEventsProcessed ==
  \A t \in Started :
    pc[t] = "returned" =>
      /\ EventRows(event[t].delivery_id) # {}
      /\ \A i \in EventRows(event[t].delivery_id) : webhook_events[i].processed

====
